---- MODULE Spec2Model ----
(***************************************************************************)
(* Model of pkg/domain/filters/pods.go: GeneratePodFilterFunc compiles a   *)
(* filter request (family name, value list) into a predicate over a Pod,   *)
(* and the predicate is then applied to Pods.                              *)
(*                                                                         *)
(* Go strings are modelled as sequences of one-character strings, so that  *)
(* prefix tests, lower-casing, regular-expression search and integer       *)
(* parsing are computed character by character.                            *)
(***************************************************************************)
EXTENDS Integers, Sequences, FiniteSets, TLC

VARIABLES filter, filterValues, pred, err, inputNetNames, registryCalls,
          pod, result, failedBefore, now

vars == <<filter, filterValues, pred, err, inputNetNames, registryCalls,
          pod, result, failedBefore, now>>

(***************************************************************************)
(* Bounds of the model.                                                    *)
(***************************************************************************)
\* longest value list handed to GeneratePodFilterFunc
MaxVals == 2
\* largest number of child containers of a Pod
MaxCtrs == 2
\* last instant of the wall clock
MaxClock == 2

(***************************************************************************)
(* String literals used as filter values and Pod attributes.               *)
(***************************************************************************)
s_empty == << >>
s_ab == <<"a", "b">>
s_AB == <<"A", "B">>
s_b1 == <<"b", "1">>
s_bdot == <<"b", ".">>
s_paren == <<"(">>
s_ab12 == <<"a", "b", "1", "2">>
s_b1a2 == <<"b", "1", "a", "2">>
s_cc == <<"c", "c">>
s_web == <<"w", "e", "b">>
s_db == <<"d", "b">>
s_api == <<"a", "p", "i">>
s_hatd == <<"^", "d">>
s_pdot == <<"p", ".">>
s_estar == <<"e", "*", "b", "$">>
s_0 == <<"0">>
s_1 == <<"1">>
s_2 == <<"2">>
s_3 == <<"3">>
s_x == <<"x">>
s_plus2 == <<"+", "2">>
s_0s == <<"0", "s">>
s_1s == <<"1", "s">>
s_created == <<"c", "r", "e", "a", "t", "e", "d">>
s_configured == <<"c", "o", "n", "f", "i", "g", "u", "r", "e", "d">>
s_running == <<"r", "u", "n", "n", "i", "n", "g">>
s_paused == <<"p", "a", "u", "s", "e", "d">>
s_stopped == <<"s", "t", "o", "p", "p", "e", "d">>
s_exited == <<"e", "x", "i", "t", "e", "d">>
s_unknown == <<"u", "n", "k", "n", "o", "w", "n">>
s_removing == <<"r", "e", "m", "o", "v", "i", "n", "g">>
s_stopping == <<"s", "t", "o", "p", "p", "i", "n", "g">>
s_dead == <<"d", "e", "a", "d">>
s_degraded == <<"d", "e", "g", "r", "a", "d", "e", "d">>
s_Running == <<"R", "u", "n", "n", "i", "n", "g">>
s_Exited == <<"E", "x", "i", "t", "e", "d">>
s_Degraded == <<"D", "e", "g", "r", "a", "d", "e", "d">>
s_Stopped == <<"S", "t", "o", "p", "p", "e", "d">>
s_Created == <<"C", "r", "e", "a", "t", "e", "d">>
s_bridge == <<"b", "r", "i", "d", "g", "e">>
s_br == <<"b", "r">>
s_mynet == <<"m", "y", "n", "e", "t">>
s_ghost == <<"g", "h", "o", "s", "t">>
s_boom == <<"b", "o", "o", "m">>
s_env == <<"e", "n", "v">>
s_prod == <<"p", "r", "o", "d">>
s_env_prod == <<"e", "n", "v", "=", "p", "r", "o", "d">>
s_env_dev == <<"e", "n", "v", "=", "d", "e", "v">>
s_tier == <<"t", "i", "e", "r">>

Range(s) == {s[i] : i \in DOMAIN s}

(***************************************************************************)
(* Library functions the predicates call.                                  *)
(***************************************************************************)
HexDigits ==
    {"0", "1", "2", "3", "4", "5", "6", "7", "8", "9",
     "a", "b", "c", "d", "e", "f", "A", "B", "C", "D", "E", "F"}

\* define.NotHexRegex.MatchString(want): the pattern [^0-9a-fA-F] is found in want
NotHexRegexMatch(want) == \E i \in DOMAIN want : want[i] \notin HexDigits

UpperChars ==
    <<"A", "B", "C", "D", "E", "F", "G", "H", "I", "J", "K", "L", "M",
      "N", "O", "P", "Q", "R", "S", "T", "U", "V", "W", "X", "Y", "Z">>
LowerChars ==
    <<"a", "b", "c", "d", "e", "f", "g", "h", "i", "j", "k", "l", "m",
      "n", "o", "p", "q", "r", "s", "t", "u", "v", "w", "x", "y", "z">>

ToLowerChar(c) ==
    IF \E i \in DOMAIN UpperChars : UpperChars[i] = c
    THEN LowerChars[CHOOSE i \in DOMAIN UpperChars : UpperChars[i] = c]
    ELSE c

\* strings.ToLower
ToLower(s) == [i \in DOMAIN s |-> ToLowerChar(s[i])]

\* strings.HasPrefix
HasPrefix(s, prefix) ==
    /\ Len(prefix) <= Len(s)
    /\ SubSeq(s, 1, Len(prefix)) = prefix

\* cutil.StringInSlice
StringInSlice(s, slice) == \E i \in DOMAIN slice : slice[i] = s

(***************************************************************************)
(* Go regular expressions, for the patterns the model uses: literal        *)
(* characters, ".", a postfix "*", a leading "^", a trailing "$".  A        *)
(* pattern with unbalanced parentheses or a leading "*" does not compile.  *)
(***************************************************************************)
RECURSIVE ParenBalance(_, _)
ParenBalance(re, depth) ==
    IF re = << >> THEN depth = 0
    ELSE IF re[1] = "(" THEN ParenBalance(Tail(re), depth + 1)
    ELSE IF re[1] = ")" THEN depth > 0 /\ ParenBalance(Tail(re), depth - 1)
    ELSE ParenBalance(Tail(re), depth)

\* regexp.Compile(want) returns a nil error
RegexpCompileOK(re) ==
    /\ ParenBalance(re, 0)
    /\ ~(re # << >> /\ re[1] = "*")

RECURSIVE MatchHere(_, _)
RECURSIVE MatchStar(_, _, _)
MatchHere(re, text) ==
    IF re = << >> THEN TRUE
    ELSE IF Len(re) >= 2 /\ re[2] = "*"
         THEN MatchStar(re[1], SubSeq(re, 3, Len(re)), text)
    ELSE IF re[1] = "$" /\ Len(re) = 1 THEN text = << >>
    ELSE IF text # << >> /\ (re[1] = "." \/ re[1] = text[1])
         THEN MatchHere(Tail(re), Tail(text))
    ELSE FALSE

MatchStar(c, re, text) ==
    \E k \in 0..Len(text) :
        /\ \A j \in 1..k : c = "." \/ text[j] = c
        /\ MatchHere(re, SubSeq(text, k + 1, Len(text)))

\* (*Regexp).MatchString(s): the pattern is found somewhere in s
RegexpMatchString(re, s) ==
    IF re # << >> /\ re[1] = "^"
    THEN MatchHere(Tail(re), s)
    ELSE \E k \in 0..Len(s) : MatchHere(re, SubSeq(s, k + 1, Len(s)))

\* regexp.MatchString(pattern, s): (matched, err)
RegexpPkgMatchString(pattern, s) ==
    IF RegexpCompileOK(pattern)
    THEN [err |-> FALSE, val |-> RegexpMatchString(pattern, s)]
    ELSE [err |-> TRUE, val |-> FALSE]

DecDigits == <<"0", "1", "2", "3", "4", "5", "6", "7", "8", "9">>
IsDigits(s) == s # << >> /\ \A i \in DOMAIN s : s[i] \in Range(DecDigits)
DigitVal(c) == (CHOOSE i \in DOMAIN DecDigits : DecDigits[i] = c) - 1

RECURSIVE DecValue(_)
DecValue(s) ==
    IF s = << >> THEN 0
    ELSE 10 * DecValue(SubSeq(s, 1, Len(s) - 1)) + DigitVal(s[Len(s)])

\* strconv.Atoi: an optional sign, then decimal digits
Atoi(s) ==
    LET signed == s # << >> /\ s[1] \in {"+", "-"}
        body == IF signed THEN Tail(s) ELSE s
    IN  IF IsDigits(body)
        THEN [err |-> FALSE,
              val |-> IF signed /\ s[1] = "-" THEN 0 - DecValue(body) ELSE DecValue(body)]
        ELSE [err |-> TRUE, val |-> 0]

(***************************************************************************)
(* The Pod entity model, as the predicates read it.  A Pod is a record:    *)
(* id, name, labels (a set of <<key, value>>), created (an instant), ctrs  *)
(* (its child containers in enumeration order, each with id, name and      *)
(* state), status (the derived Pod status), infra (whether an infra        *)
(* container exists), networks (the infra container's attached networks),  *)
(* and errs, the accessors that report an error for this Pod.              *)
(***************************************************************************)
ContainerStates ==
    <<"ContainerStateUnknown", "ContainerStateConfigured", "ContainerStateCreated",
      "ContainerStateRunning", "ContainerStateStopped", "ContainerStatePaused",
      "ContainerStateExited", "ContainerStateRemoving", "ContainerStateStopping">>

\* define.ContainerStatus.String()
ContainerStatusString(st) ==
    CASE st = "ContainerStateUnknown" -> s_unknown
      [] st = "ContainerStateConfigured" -> s_configured
      [] st = "ContainerStateCreated" -> s_created
      [] st = "ContainerStateRunning" -> s_running
      [] st = "ContainerStateStopped" -> s_stopped
      [] st = "ContainerStatePaused" -> s_paused
      [] st = "ContainerStateExited" -> s_exited
      [] st = "ContainerStateRemoving" -> s_removing
      [] st = "ContainerStateStopping" -> s_stopping

ID(p) == p.id
Name(p) == p.name
Labels(p) == p.labels
CreatedTime(p) == p.created

AllContainersByID(p) ==
    IF "AllContainersByID" \in p.errs
    THEN [err |-> TRUE, val |-> << >>]
    ELSE [err |-> FALSE, val |-> [i \in DOMAIN p.ctrs |-> p.ctrs[i].id]]

AllContainers(p) ==
    IF "AllContainers" \in p.errs
    THEN [err |-> TRUE, val |-> << >>]
    ELSE [err |-> FALSE, val |-> p.ctrs]

\* Pod.Status(): a map from child container ID to its state
Status(p) ==
    IF "Status" \in p.errs
    THEN [err |-> TRUE, val |-> << >>]
    ELSE [err |-> FALSE,
          val |-> [id \in {p.ctrs[i].id : i \in DOMAIN p.ctrs} |->
                     (CHOOSE c \in Range(p.ctrs) : c.id = id).state]]

GetPodStatus(p) ==
    IF "GetPodStatus" \in p.errs
    THEN [err |-> TRUE, val |-> s_empty]
    ELSE [err |-> FALSE, val |-> p.status]

\* Pod.InfraContainer(): an error when the Pod has no infra container
InfraContainer(p) ==
    IF ~p.infra \/ "InfraContainer" \in p.errs
    THEN [err |-> TRUE, val |-> << >>]
    ELSE [err |-> FALSE, val |-> p]

\* Container.Networks() of the infra container
Networks(infra) ==
    IF "Networks" \in infra.errs
    THEN [err |-> TRUE, val |-> << >>]
    ELSE [err |-> FALSE, val |-> infra.networks]

(***************************************************************************)
(* Helpers of other packages that the predicates delegate to.              *)
(***************************************************************************)
RECURSIVE StringMatchRegexSliceFrom(_, _, _)
StringMatchRegexSliceFrom(s, re, i) ==
    IF i > Len(re) THEN FALSE
    ELSE LET m == RegexpPkgMatchString(re[i], s)
         IN  IF ~m.err /\ m.val THEN TRUE
             ELSE StringMatchRegexSliceFrom(s, re, i + 1)

\* util.StringMatchRegexSlice
StringMatchRegexSlice(s, re) == StringMatchRegexSliceFrom(s, re, 1)

\* strings.SplitN(filterValue, "=", 2)
SplitKeyValue(v) ==
    IF \E i \in DOMAIN v : v[i] = "="
    THEN LET at == CHOOSE i \in DOMAIN v :
                       v[i] = "=" /\ \A j \in 1..(i - 1) : v[j] # "="
         IN  [key |-> SubSeq(v, 1, at - 1), value |-> SubSeq(v, at + 1, Len(v))]
    ELSE [key |-> v, value |-> s_empty]

\* filters.MatchLabelFilters: every filter value is satisfied by some label
MatchLabelFilters(values, labels) ==
    \A i \in DOMAIN values :
        LET kv == SplitKeyValue(values[i])
        IN  \E l \in labels :
                /\ kv.value = s_empty \/ l[2] = kv.value
                /\ l[1] = kv.key

\* util.ComputeUntilTimestamp: exactly one value; a duration ("<n>s") is
\* counted back from the current time, a number is an absolute instant
ComputeUntilTimestamp(values, clock) ==
    IF Len(values) # 1 THEN [err |-> TRUE, val |-> 0]
    ELSE LET v == values[1]
         IN  IF IsDigits(v) THEN [err |-> FALSE, val |-> DecValue(v)]
             ELSE IF Len(v) >= 2 /\ v[Len(v)] = "s" /\ IsDigits(SubSeq(v, 1, Len(v) - 1))
                  THEN [err |-> FALSE, val |-> clock - DecValue(SubSeq(v, 1, Len(v) - 1))]
             ELSE [err |-> TRUE, val |-> 0]

\* r.Network().NetworkInspect(val) against the registry's content
NetworkInspect(val) ==
    CASE val = s_bridge -> [err |-> "nil", name |-> s_bridge]
      [] val = s_br -> [err |-> "nil", name |-> s_bridge]
      [] val = s_mynet -> [err |-> "nil", name |-> s_mynet]
      [] val = s_boom -> [err |-> "ErrInternal", name |-> s_empty]
      [] OTHER -> [err |-> "ErrNoSuchNetwork", name |-> s_empty]

(***************************************************************************)
(* The predicates GeneratePodFilterFunc returns, one per filter family.    *)
(* Each is the closure's body: p is the Pod it is applied to, and the      *)
(* other parameters are what the closure captured.                         *)
(***************************************************************************)
RECURSIVE CtrIdsLoop(_, _, _)
CtrIdsLoop(values, i, ctrIds) ==
    IF i > Len(values) THEN FALSE
    ELSE LET want == values[i]
             isRegex == NotHexRegexMatch(want)
         IN  IF isRegex
             THEN IF ~RegexpCompileOK(want) THEN FALSE
                  ELSE IF \E k \in DOMAIN ctrIds : RegexpMatchString(want, ctrIds[k])
                       THEN TRUE
                       ELSE CtrIdsLoop(values, i + 1, ctrIds)
             ELSE IF \E k \in DOMAIN ctrIds : HasPrefix(ctrIds[k], ToLower(want))
                  THEN TRUE
                  ELSE CtrIdsLoop(values, i + 1, ctrIds)

CtrIdsPred(p, values) ==
    LET ctrIds == AllContainersByID(p)
    IN  IF ctrIds.err THEN FALSE
        ELSE CtrIdsLoop(values, 1, ctrIds.val)

\* the loop over the children returns in its first iteration
CtrNamesPred(p, values) ==
    LET ctrs == AllContainers(p)
    IN  IF ctrs.err THEN FALSE
        ELSE IF ctrs.val # << >>
             THEN StringMatchRegexSlice(ctrs.val[1].name, values)
             ELSE FALSE

RECURSIVE CtrNumberLoop(_, _, _)
CtrNumberLoop(values, i, n) ==
    IF i > Len(values) THEN FALSE
    ELSE LET fVint == Atoi(values[i])
         IN  IF fVint.err THEN FALSE
             ELSE IF n = fVint.val THEN TRUE
             ELSE CtrNumberLoop(values, i + 1, n)

\* variant: the enumeration error is not looked at
CtrNumberPred_IgnoreErr(p, values) ==
    CtrNumberLoop(values, 1, Len(AllContainersByID(p).val))

CtrNumberPred(p, values) ==
    LET ctrIds == AllContainersByID(p)
    IN  IF ctrIds.err THEN FALSE
        ELSE CtrNumberLoop(values, 1, Len(ctrIds.val))

\* the state a child container is compared by
CtrStatusState(ctrStatus) ==
    IF ctrStatus = "ContainerStateConfigured" THEN s_created
    ELSE IF ctrStatus = "ContainerStateStopped" THEN s_exited
    ELSE ContainerStatusString(ctrStatus)

\* variant: the query value stopped is compared as it is
CtrStatusValue_NoAlias(filterValue) == filterValue

\* the loop variable filterValue is a copy: the captured list is not written
CtrStatusValue(filterValue) ==
    IF filterValue = s_stopped THEN s_exited ELSE filterValue

CtrStatusPred(p, values) ==
    LET ctrStatuses == Status(p)
    IN  IF ctrStatuses.err THEN FALSE
        ELSE \E id \in DOMAIN ctrStatuses.val :
                 \E i \in DOMAIN values :
                     CtrStatusState(ctrStatuses.val[id]) = CtrStatusValue(values[i])

\* variant: the hex value is not lower-cased before the prefix test
IdMatch_NoLower(want, id) ==
    LET isRegex == NotHexRegexMatch(want)
    IN  IF isRegex
        THEN LET m == RegexpPkgMatchString(want, id)
             IN  ~m.err /\ m.val
        ELSE HasPrefix(id, want)

IdMatch(want, id) ==
    LET isRegex == NotHexRegexMatch(want)
    IN  IF isRegex
        THEN LET m == RegexpPkgMatchString(want, id)
             IN  ~m.err /\ m.val
        ELSE HasPrefix(id, ToLower(want))

IdPred(p, values) == \E i \in DOMAIN values : IdMatch(values[i], ID(p))

NamePred(p, values) == StringMatchRegexSlice(Name(p), values)

StatusPred(p, values) ==
    LET status == GetPodStatus(p)
    IN  IF status.err THEN FALSE
        ELSE \E i \in DOMAIN values : ToLower(status.val) = values[i]

LabelPred(p, values) == MatchLabelFilters(values, Labels(p))

UntilPred(p, values, clock) ==
    LET until == ComputeUntilTimestamp(values, clock)
    IN  IF until.err THEN FALSE
        ELSE CreatedTime(p) < until.val

NetworkPred(p, netNames) ==
    LET infra == InfraContainer(p)
    IN  IF infra.err THEN FALSE
        ELSE LET networks == Networks(infra.val)
             IN  IF networks.err \/ Len(networks.val) = 0 THEN FALSE
                 ELSE \E i \in DOMAIN networks.val :
                          StringInSlice(networks.val[i], netNames)

(***************************************************************************)
(* GeneratePodFilterFunc: the compile-time part.  The outcome is a record: *)
(* pred (a predicate was returned), err (the error, NoErr for nil), names  *)
(* (the network names the network predicate captures) and calls (the       *)
(* values handed to the registry, in order).                               *)
(***************************************************************************)
NoErr == [kind |-> "nil", arg |-> s_empty]

CtrStatusVocabulary == <<s_created, s_running, s_paused, s_stopped, s_exited, s_unknown>>
PodStatusVocabulary ==
    <<s_stopped, s_running, s_paused, s_exited, s_dead, s_created, s_degraded>>

\* variant: the validation reports the last value outside the vocabulary
FirstInvalid_Last(values, vocabulary) ==
    IF \E i \in DOMAIN values : ~StringInSlice(values[i], vocabulary)
    THEN CHOOSE i \in DOMAIN values :
             /\ ~StringInSlice(values[i], vocabulary)
             /\ \A j \in (i + 1)..Len(values) : StringInSlice(values[j], vocabulary)
    ELSE 0

\* the value the validation loop stops at: the first one outside the vocabulary
FirstInvalid(values, vocabulary) ==
    IF \E i \in DOMAIN values : ~StringInSlice(values[i], vocabulary)
    THEN CHOOSE i \in DOMAIN values :
             /\ ~StringInSlice(values[i], vocabulary)
             /\ \A j \in 1..(i - 1) : StringInSlice(values[j], vocabulary)
    ELSE 0

Compiled(names, calls) == [pred |-> TRUE, err |-> NoErr, names |-> names, calls |-> calls]
Failed(kind, arg, calls) ==
    [pred |-> FALSE, err |-> [kind |-> kind, arg |-> arg], names |-> << >>, calls |-> calls]

\* variant: the predicate captures the values as given, not the resolved names
RECURSIVE NetworkResolve_RawNames(_, _, _, _)
NetworkResolve_RawNames(values, i, names, calls) ==
    IF i > Len(values) THEN Compiled(names, calls)
    ELSE LET net == NetworkInspect(values[i])
             called == Append(calls, values[i])
         IN  IF net.err # "nil"
             THEN IF net.err = "ErrNoSuchNetwork"
                  THEN NetworkResolve_RawNames(values, i + 1, names, called)
                  ELSE Failed(net.err, values[i], called)
             ELSE NetworkResolve_RawNames(values, i + 1, Append(names, values[i]), called)

RECURSIVE NetworkResolve(_, _, _, _)
NetworkResolve(values, i, names, calls) ==
    IF i > Len(values) THEN Compiled(names, calls)
    ELSE LET net == NetworkInspect(values[i])
             called == Append(calls, values[i])
         IN  IF net.err # "nil"
             THEN IF net.err = "ErrNoSuchNetwork"
                  THEN NetworkResolve(values, i + 1, names, called)
                  ELSE Failed(net.err, values[i], called)
             ELSE NetworkResolve(values, i + 1, Append(names, net.name), called)

CompileStatus(values, vocabulary, kind) ==
    LET bad == FirstInvalid(values, vocabulary)
    IN  IF bad # 0 THEN Failed(kind, values[bad], << >>)
        ELSE Compiled(<< >>, << >>)

KnownFamilies ==
    {"ctr-ids", "ctr-names", "ctr-number", "ctr-status", "id", "name", "status",
     "label", "until", "network"}

\* variant: a family outside the switch yields a predicate instead of an error
GeneratePodFilterFunc_NoDefault(family, values) ==
    CASE family = "ctr-status" ->
             CompileStatus(values, CtrStatusVocabulary, "is not a valid status")
      [] family = "status" ->
             CompileStatus(values, PodStatusVocabulary, "is not a valid pod status")
      [] family = "network" -> NetworkResolve(values, 1, << >>, << >>)
      [] OTHER -> Compiled(<< >>, << >>)

GeneratePodFilterFunc(family, values) ==
    CASE family \in {"ctr-ids", "ctr-names", "ctr-number", "id", "name", "label", "until"} ->
             Compiled(<< >>, << >>)
      [] family = "ctr-status" ->
             CompileStatus(values, CtrStatusVocabulary, "is not a valid status")
      [] family = "status" ->
             CompileStatus(values, PodStatusVocabulary, "is not a valid pod status")
      [] family = "network" -> NetworkResolve(values, 1, << >>, << >>)
      [] OTHER -> Failed("is an invalid filter", family, << >>)

\* applying the returned predicate to a Pod
Apply(family, values, netNames, p, clock) ==
    CASE family = "ctr-ids" -> CtrIdsPred(p, values)
      [] family = "ctr-names" -> CtrNamesPred(p, values)
      [] family = "ctr-number" -> CtrNumberPred(p, values)
      [] family = "ctr-status" -> CtrStatusPred(p, values)
      [] family = "id" -> IdPred(p, values)
      [] family = "name" -> NamePred(p, values)
      [] family = "status" -> StatusPred(p, values)
      [] family = "label" -> LabelPred(p, values)
      [] family = "until" -> UntilPred(p, values, clock)
      [] family = "network" -> NetworkPred(p, netNames)

\* whether applying the predicate to p runs into an accessor or helper error
LookupErr(family, values, p, clock) ==
    CASE family \in {"ctr-ids", "ctr-number"} -> AllContainersByID(p).err
      [] family = "ctr-names" -> AllContainers(p).err
      [] family = "ctr-status" -> Status(p).err
      [] family = "status" -> GetPodStatus(p).err
      [] family = "until" -> ComputeUntilTimestamp(values, clock).err
      [] family = "network" ->
             \/ InfraContainer(p).err
             \/ Networks(InfraContainer(p).val).err
             \/ Len(Networks(InfraContainer(p).val).val) = 0
      [] OTHER -> FALSE

(***************************************************************************)
(* Inputs: the filter requests compiled and the Pods scanned.              *)
(***************************************************************************)
UnknownFamilies == {"bogus", "ID"}
Families == KnownFamilies \cup UnknownFamilies

ValuePool(family) ==
    CASE family \in {"id", "ctr-ids"} -> {s_AB, s_b1, s_empty, s_bdot, s_paren}
      [] family \in {"name", "ctr-names"} -> {s_web, s_hatd, s_paren, s_pdot, s_estar}
      [] family = "ctr-number" -> {s_0, s_2, s_plus2, s_3, s_x}
      [] family = "ctr-status" ->
             Range(CtrStatusVocabulary) \cup {s_dead, s_degraded, s_Running}
      [] family = "status" ->
             Range(PodStatusVocabulary) \cup {s_unknown, s_Running}
      [] family = "label" -> {s_env, s_env_prod, s_env_dev, s_tier}
      [] family = "until" -> {s_1, s_0s, s_1s, s_x}
      [] family = "network" -> {s_bridge, s_br, s_mynet, s_ghost, s_boom}
      [] OTHER -> {s_ab, s_running, s_bridge}

ValueLists(family) == UNION {[1..k -> ValuePool(family)] : k \in 0..MaxVals}

Ctr(id, name, state) == [id |-> id, name |-> name, state |-> state]

ChildCtrs ==
    {Ctr(s_ab12, s_web, "ContainerStateRunning"),
     Ctr(s_b1a2, s_db, "ContainerStateRunning"),
     Ctr(s_cc, s_api, "ContainerStateExited")}

\* one child container per container state
StateCtr(i) == Ctr(<<"c", DecDigits[i]>>, s_web, ContainerStates[i])

\* enumerations of at most n distinct children drawn from S
Enumerations(S, n) ==
    {s \in UNION {[1..k -> S] : k \in 0..n} :
        \A i, j \in DOMAIN s : i # j => s[i] # s[j]}

DefaultPod ==
    [id |-> s_ab12, name |-> s_web, labels |-> {}, created |-> 0, ctrs |-> << >>,
     errs |-> {}, status |-> s_Running, infra |-> TRUE, networks |-> <<s_bridge>>]

PodsWithChildren(accessor) ==
    {[DefaultPod EXCEPT !.ctrs = cs] : cs \in Enumerations(ChildCtrs, MaxCtrs)}
    \cup {[DefaultPod EXCEPT !.ctrs = cs, !.errs = {accessor}] :
             cs \in Enumerations(ChildCtrs, 1)}

PodsWithStates ==
    {[DefaultPod EXCEPT !.ctrs = cs] :
        cs \in {<< >>} \cup {<<StateCtr(i)>> : i \in DOMAIN ContainerStates}
                \cup {<<StateCtr(4), StateCtr(j)>> : j \in {1, 2, 3, 5, 6, 7}}}
    \cup {[DefaultPod EXCEPT !.ctrs = cs, !.errs = {"Status"}] :
             cs \in {<< >>, <<StateCtr(4)>>}}

PodsFor(family) ==
    CASE family \in {"id", "name"} ->
             {[DefaultPod EXCEPT !.id = i, !.name = n] :
                 i \in {s_ab12, s_b1a2, s_cc}, n \in {s_web, s_db}}
      [] family \in {"ctr-ids", "ctr-number"} -> PodsWithChildren("AllContainersByID")
      [] family = "ctr-names" -> PodsWithChildren("AllContainers")
      [] family = "ctr-status" -> PodsWithStates
      [] family = "status" ->
             {[DefaultPod EXCEPT !.status = s] :
                 s \in {s_Running, s_Exited, s_Degraded, s_Stopped, s_Created}}
             \cup {[DefaultPod EXCEPT !.errs = {"GetPodStatus"}]}
      [] family = "label" ->
             {[DefaultPod EXCEPT !.labels = l] :
                 l \in {{}, {<<s_env, s_prod>>}, {<<s_env, s_db>>, <<s_tier, s_web>>}}}
      [] family = "until" ->
             {[DefaultPod EXCEPT !.created = c] : c \in 0..MaxClock}
      [] family = "network" ->
             {[DefaultPod EXCEPT !.networks = n] :
                 n \in {<< >>, <<s_bridge>>, <<s_mynet>>, <<s_ghost>>,
                        <<s_ghost, s_bridge>>, <<s_br>>}}
             \cup {[DefaultPod EXCEPT !.infra = FALSE],
                   [DefaultPod EXCEPT !.errs = {"InfraContainer"}],
                   [DefaultPod EXCEPT !.errs = {"Networks"}]}
      [] OTHER -> {DefaultPod}

NoPod == [id |-> s_empty]
NoFilter == ""

(***************************************************************************)
(* The state machine: a caller compiles one filter request and applies the *)
(* returned predicate to Pods any number of times.                         *)
(*   filter, filterValues  the request being served (NoFilter: none)       *)
(*   pred, err             what GeneratePodFilterFunc returned             *)
(*   inputNetNames         the network names the predicate captured        *)
(*   registryCalls         the values handed to the registry so far        *)
(*   pod, result           the last Pod the predicate was applied to, and  *)
(*                         what it returned                                *)
(*   failedBefore          an earlier application hit a lookup failure     *)
(*   now                   the last reading of the wall clock              *)
(***************************************************************************)
Init ==
    /\ filter = NoFilter
    /\ filterValues = << >>
    /\ pred = FALSE
    /\ err = NoErr
    /\ inputNetNames = << >>
    /\ registryCalls = << >>
    /\ pod = NoPod
    /\ result = FALSE
    /\ failedBefore = FALSE
    /\ now = 0

Compile(family, values) ==
    /\ filter = NoFilter
    /\ LET out == GeneratePodFilterFunc(family, values)
       IN  /\ pred' = out.pred
           /\ err' = out.err
           /\ inputNetNames' = out.names
           /\ registryCalls' = out.calls
    /\ filter' = family
    /\ filterValues' = values
    /\ pod' = NoPod
    /\ result' = FALSE
    /\ failedBefore' = FALSE
    /\ UNCHANGED now

\* the predicate applied to p; only the until predicate reads the clock,
\* which has not gone back since the last reading
Evaluate(p, clock) ==
    /\ pred
    /\ clock >= now
    /\ filter # "until" => clock = now
    /\ result' = Apply(filter, filterValues, inputNetNames, p, clock)
    /\ pod' = p
    /\ failedBefore' = (failedBefore \/ (pod # NoPod /\ LookupErr(filter, filterValues, pod, now)))
    /\ now' = clock
    /\ UNCHANGED <<filter, filterValues, pred, err, inputNetNames, registryCalls>>

Next ==
    \/ \E family \in Families : \E values \in ValueLists(family) : Compile(family, values)
    \/ \E p \in PodsFor(filter) : \E clock \in 0..MaxClock : Evaluate(p, clock)

Spec == Init /\ [][Next]_vars

(***************************************************************************)
(* Properties.                                                             *)
(***************************************************************************)
RecognizedFamilies ==
    {"id", "name", "ctr-ids", "ctr-names", "ctr-number", "ctr-status", "status",
     "label", "until", "network"}

Compiling == filter # NoFilter
Applied == pod # NoPod

\* C1: a family name outside the ten recognized ones yields a non-nil error and
\* no predicate, whatever the values, without a registry call and without a Pod
\* being consulted; a recognized family other than ctr-status, status and
\* network always yields a predicate and a nil error.
C1_UnknownFamilyRejected ==
    Compiling =>
        /\ filter \notin RecognizedFamilies =>
               /\ ~pred
               /\ err # NoErr
               /\ err.arg = filter
               /\ registryCalls = << >>
               /\ ~Applied
        /\ filter \in RecognizedFamilies \ {"ctr-status", "status", "network"} =>
               /\ pred
               /\ err = NoErr
               /\ registryCalls = << >>

C1_Witness ==
    /\ filter = "bogus"
    /\ Len(filterValues) = MaxVals
    /\ ~pred
    /\ err.kind = "is an invalid filter"

CtrStatusWords == {s_created, s_running, s_paused, s_stopped, s_exited, s_unknown}
PodStatusWords ==
    {s_stopped, s_running, s_paused, s_exited, s_dead, s_created, s_degraded}

Offending(words) == {i \in DOMAIN filterValues : filterValues[i] \notin words}
FirstOffending(words) ==
    CHOOSE i \in Offending(words) : \A j \in Offending(words) : i <= j

StatusValidated(words) ==
    /\ pred = (Offending(words) = {})
    /\ (err = NoErr) = (Offending(words) = {})
    /\ Offending(words) # {} =>
           /\ err.arg = filterValues[FirstOffending(words)]
           /\ ~Applied
    /\ registryCalls = << >>

\* C2: compiling ctr-status (status) fails exactly when some value is outside
\* the family's vocabulary; the error names the first such value in list order,
\* no Pod has been consulted, and a list of valid values (the empty list
\* included) compiles.
C2_StatusVocabulary ==
    /\ filter = "ctr-status" => StatusValidated(CtrStatusWords)
    /\ filter = "status" => StatusValidated(PodStatusWords)

C2_Witness ==
    /\ filter = "status"
    /\ filterValues = <<s_unknown, s_Running>>
    /\ ~pred
    /\ err = [kind |-> "is not a valid pod status", arg |-> s_unknown]

\* the lookup failures of C3, for the Pod last applied to
LookupFailure(p) ==
    \/ filter \in {"ctr-ids", "ctr-number"} /\ AllContainersByID(p).err
    \/ filter = "ctr-names" /\ AllContainers(p).err
    \/ filter = "ctr-status" /\ Status(p).err
    \/ filter = "status" /\ GetPodStatus(p).err
    \/ filter = "until" /\ ComputeUntilTimestamp(filterValues, now).err
    \/ filter = "network" /\ InfraContainer(p).err
    \/ filter = "network" /\ ~InfraContainer(p).err /\ Networks(p).err
    \/ filter = "network" /\ ~InfraContainer(p).err /\ Networks(p).val = << >>

\* C3: an application that runs into a lookup failure returns false (a boolean,
\* never an error); the predicate stays in place for later applications.
C3_FailClosed ==
    Applied =>
        /\ result \in BOOLEAN
        /\ pred
        /\ LookupFailure(pod) => result = FALSE

\* after a failed application, the same predicate is true for another Pod
C3_Witness ==
    /\ filter = "ctr-number"
    /\ failedBefore
    /\ Applied
    /\ ~LookupFailure(pod)
    /\ result = TRUE

IsPrefixOf(s, full) == Len(s) <= Len(full) /\ SubSeq(full, 1, Len(s)) = s
OtherError(v) == NetworkInspect(v).err \notin {"nil", "ErrNoSuchNetwork"}
Resolves(v) == NetworkInspect(v).err = "nil"
CanonicalName(v) == NetworkInspect(v).name

\* C4: network values are resolved once each, in list order; a value that is
\* not found is skipped; the first other error aborts with that error and no
\* predicate; otherwise the captured names are the canonical names of the
\* values that resolved.  The predicate is true exactly for a Pod with an infra
\* container one of whose attached networks is captured, and applying it makes
\* no registry call.
C4_NetworkFilter ==
    filter = "network" =>
        /\ IsPrefixOf(registryCalls, filterValues)
        /\ \A i \in 1..(Len(registryCalls) - 1) : ~OtherError(registryCalls[i])
        /\ pred = (\A i \in DOMAIN filterValues : ~OtherError(filterValues[i]))
        /\ pred => /\ err = NoErr
                   /\ registryCalls = filterValues
                   /\ LET kept == SelectSeq(filterValues, Resolves)
                      IN  inputNetNames = [i \in DOMAIN kept |-> CanonicalName(kept[i])]
        /\ ~pred => /\ OtherError(registryCalls[Len(registryCalls)])
                    /\ err.kind = NetworkInspect(registryCalls[Len(registryCalls)]).err
                    /\ err # NoErr
                    /\ ~Applied
        /\ Applied =>
               result = (/\ ~InfraContainer(pod).err
                         /\ \E n \in Range(Networks(pod).val) : n \in Range(inputNetNames))
        /\ (Applied /\ inputNetNames = << >>) => result = FALSE

C4_Witness ==
    /\ filter = "network"
    /\ filterValues = <<s_ghost, s_br>>
    /\ inputNetNames = <<s_bridge>>
    /\ Applied
    /\ pod.networks = <<s_ghost, s_bridge>>
    /\ result = TRUE

\* C5: with a successful enumeration, ctr-number is true exactly when some
\* value parses as the number of children, wherever an unparsable value stands.
C5_CtrNumberAnyValue ==
    (filter = "ctr-number" /\ Applied /\ ~AllContainersByID(pod).err) =>
        result = (\E i \in DOMAIN filterValues :
                     /\ ~Atoi(filterValues[i]).err
                     /\ Atoi(filterValues[i]).val = Len(pod.ctrs))

NormalState(st) ==
    IF st = "ContainerStateConfigured" THEN s_created
    ELSE IF st = "ContainerStateStopped" THEN s_exited
    ELSE ContainerStatusString(st)
NormalValue(v) == IF v = s_stopped THEN s_exited ELSE v

\* C6: with a successful state fetch, ctr-status is true exactly when some
\* child state equals some query value, both normalized; raw configured matches
\* created, raw stopped matches stopped and exited, no children match nothing.
C6_CtrStatusNormalized ==
    (filter = "ctr-status" /\ Applied /\ ~Status(pod).err) =>
        /\ result = (\E i \in DOMAIN pod.ctrs : \E j \in DOMAIN filterValues :
                        NormalState(pod.ctrs[i].state) = NormalValue(filterValues[j]))
        /\ pod.ctrs = << >> => result = FALSE
        /\ (/\ \E i \in DOMAIN pod.ctrs : pod.ctrs[i].state = "ContainerStateStopped"
            /\ Range(filterValues) \cap {s_stopped, s_exited} # {}) => result = TRUE
        /\ (/\ \E i \in DOMAIN pod.ctrs : pod.ctrs[i].state = "ContainerStateConfigured"
            /\ s_created \in Range(filterValues)) => result = TRUE

C6_Witness ==
    /\ filter = "ctr-status"
    /\ filterValues = <<s_stopped>>
    /\ Applied
    /\ Len(pod.ctrs) = 2
    /\ pod.ctrs[2].state = "ContainerStateStopped"
    /\ result = TRUE

HexOnly(v) == \A i \in DOMAIN v : v[i] \in HexDigits
IdentifierMatch(v, id) ==
    IF HexOnly(v) THEN HasPrefix(id, ToLower(v))
    ELSE RegexpCompileOK(v) /\ RegexpMatchString(v, id)

\* C7: id is true exactly when some value matches the identifier: a hex-only
\* value as a lower-cased prefix, any other value as a regular expression found
\* anywhere; an invalid expression matches nothing and stops nothing; the empty
\* value matches every Pod and the empty list none.
C7_IdMatching ==
    (filter = "id" /\ Applied) =>
        /\ result = (\E i \in DOMAIN filterValues : IdentifierMatch(filterValues[i], pod.id))
        /\ s_empty \in Range(filterValues) => result = TRUE
        /\ filterValues = << >> => result = FALSE

C7_Witness ==
    /\ filter = "id"
    /\ filterValues = <<s_paren, s_AB>>
    /\ Applied
    /\ pod.id = s_ab12
    /\ result = TRUE

\* C8: applying the same predicate again to the same unchanged Pod returns the
\* same boolean, for every family, and leaves the captured values and network
\* names as they were.
C8_Idempotent ==
    [][(pred /\ Applied /\ pod' = pod) =>
          /\ result' = result
          /\ filterValues' = filterValues
          /\ inputNetNames' = inputNetNames]_vars

\* C9: with a successful enumeration, ctr-ids is true exactly when some value
\* matches some child identifier; a value that does not compile as a regular
\* expression matches nothing and the values after it are still tried.
C9_CtrIdsAnyValue ==
    (filter = "ctr-ids" /\ Applied /\ ~AllContainersByID(pod).err) =>
        result = (\E i \in DOMAIN filterValues : \E k \in DOMAIN pod.ctrs :
                     IdentifierMatch(filterValues[i], pod.ctrs[k].id))

\* C10: with a successful enumeration, ctr-names is true exactly when the name
\* of some child, at any position, is matched by some value.
C10_CtrNamesAnyChild ==
    (filter = "ctr-names" /\ Applied /\ ~AllContainers(pod).err) =>
        result = (\E k \in DOMAIN pod.ctrs :
                     StringMatchRegexSlice(pod.ctrs[k].name, filterValues))

====
